---- MODULE Spec2Model ----
(***************************************************************************)
(* A model of the HTTP method decorator of http-request-caps              *)
(* (HttpDecorator/DecoratorCore.ts).  A decorated method is replaced by    *)
(* an async wrapper that builds an axios request from the method's        *)
(* metadata, awaits it, writes response.data or the caught error into the *)
(* argument list and then applies the original method.                    *)
(*                                                                         *)
(* JavaScript values are records [kind, n, s, map]; argument positions    *)
(* are 0-based as in the source, TLA+ sequences are 1-based, so position  *)
(* p of an argument list is element p + 1 of the sequence.                *)
(***************************************************************************)
EXTENDS Integers, Sequences, FiniteSets, TLC

\* Longest argument list a caller passes.
MaxArgs == 2

\* Callers that invoke decorated methods concurrently.
MaxCallers == 2

----------------------------------------------------------------------------
\* JavaScript values

EmptyMap == [k \in {} |-> 0]

Val(kind, n, s, map) == [kind |-> kind, n |-> n, s |-> s, map |-> map]

Undefined == Val("undefined", 0, "", EmptyMap)
Num(n) == Val("number", n, "", EmptyMap)
Str(s) == Val("string", 0, s, EmptyMap)
Obj(map) == Val("object", 0, "", map)

\* response.data of the request issued by caller i, and the value axios
\* rejects that request with.
Payload(i) == Val("payload", i, "", EmptyMap)
TransportError(i) == Val("error", i, "transport", EmptyMap)

\* What the original method body of caller i's invocation returns or throws.
Returned(i) == Val("returned", i, "", EmptyMap)
BodyError(i) == Val("error", i, "body", EmptyMap)

\* {...a, ...b}
Spread(a, b) ==
  [k \in (DOMAIN a) \cup (DOMAIN b) |-> IF k \in DOMAIN b THEN b[k] ELSE a[k]]

\* obj[k] = v
Put(obj, k, v) ==
  [x \in (DOMAIN obj) \cup {k} |-> IF x = k THEN v ELSE obj[x]]

\* args[n], read: a position outside the list reads undefined.
ArgAt(args, n) ==
  IF n + 1 \in 1..Len(args) THEN args[n + 1] ELSE Undefined

ArraySetBounded(args, n, v) ==
  IF n + 1 \in 1..Len(args) THEN [args EXCEPT ![n + 1] = v] ELSE args

\* args[n] = v, for n >= 0: a write past the end grows the array, the
\* positions in between read undefined.
ArraySet(args, n, v) ==
  [k \in 1..(IF n + 1 > Len(args) THEN n + 1 ELSE Len(args)) |->
     IF k = n + 1 THEN v
     ELSE IF k <= Len(args) THEN args[k] ELSE Undefined]

----------------------------------------------------------------------------
\* utils and RequestConfig

isNumber(v) == v.kind = "number"

isObject(v) == v.kind = "object"

\* Merges source into target: a later layer overrides the keys it holds,
\* headers are merged key by key, the other keys of target are kept.
assignRequestConfig(target, source) ==
  [k \in (DOMAIN target) \cup (DOMAIN source) |->
     IF k \notin DOMAIN source THEN target[k]
     ELSE IF k = "headers" /\ k \in DOMAIN target
       THEN Obj(Spread(target[k].map, source[k].map))
       ELSE source[k]]

----------------------------------------------------------------------------
\* DecoratorCore

hasValidParamIndexTruthy(index) == isNumber(index) /\ index.n > 0

hasValidParamIndex(index) == isNumber(index) /\ index.n >= 0

useDataField(method) == method \in {"POST", "PUT", "PATCH"}

\* The closure of (method, url) that decorates a method.
HttpMethodDecoratorFactory(method, url) == [method |-> method, url |-> url]

createMethodDecorator(method, url) == HttpMethodDecoratorFactory(method, url)

\* params = {} when the metadata holds none
paramsOrDefault(params) == IF params = Undefined THEN EmptyMap ELSE params.map

\* The static params spread last: they win over the runtime argument.
requestParamsStaticWins(params, paramsIndex, args) ==
  Spread(IF hasValidParamIndex(paramsIndex) /\ isObject(ArgAt(args, paramsIndex.n))
           THEN ArgAt(args, paramsIndex.n).map
           ELSE EmptyMap,
         paramsOrDefault(params))

requestParams(params, paramsIndex, args) ==
  Spread(paramsOrDefault(params),
         IF hasValidParamIndex(paramsIndex) /\ isObject(ArgAt(args, paramsIndex.n))
           THEN ArgAt(args, paramsIndex.n).map
           ELSE EmptyMap)

withParams(config, method, rp) ==
  IF useDataField(method)
    THEN assignRequestConfig(config, [data |-> Obj(rp)])
    ELSE assignRequestConfig(config, [params |-> Obj(rp)])

withHeaders(config, headers) ==
  IF headers # Undefined
    THEN assignRequestConfig(config, [headers |-> headers])
    ELSE config

\* url and method set only where the default request config holds none.
requestConfigKeepsDefault(closure, meta, args, default) ==
  LET c1 == withParams(default, closure.method,
                       requestParams(meta.params, meta.paramsIndex, args))
      c2 == withHeaders(c1, meta.headers)
      c3 == IF "url" \in DOMAIN c2 THEN c2 ELSE Put(c2, "url", Str(closure.url))
  IN  IF "method" \in DOMAIN c3 THEN c3 ELSE Put(c3, "method", Str(closure.method))

\* The request config handed to axios.
requestConfig(closure, meta, args, default) ==
  LET c1 == withParams(default, closure.method,
                       requestParams(meta.params, meta.paramsIndex, args))
      c2 == withHeaders(c1, meta.headers)
      c3 == Put(c2, "url", Str(closure.url))
  IN  Put(c3, "method", Str(closure.method))

\* The prototype the decorated method is defined on.
Target == "Service.prototype"

\* The metadata Reflect holds for the decorated method m.
getMetaData(m) == m.meta

\* As onFulfilled, and a declared error slot is reset on success.
onFulfilledClearsError(args, meta, data) ==
  LET a == IF hasValidParamIndex(meta.responseIndex)
             THEN ArraySet(args, meta.responseIndex.n, data)
             ELSE args
  IN  IF hasValidParamIndex(meta.errorIndex)
        THEN ArraySet(a, meta.errorIndex.n, Undefined)
        ELSE a

\* try block after the await: lines 74-76
onFulfilled(args, meta, data) ==
  IF hasValidParamIndex(meta.responseIndex)
    THEN ArraySet(args, meta.responseIndex.n, data)
    ELSE args

\* A catch block that injects nothing.
onRejectedDropped(args, meta, e) == args

\* A catch block that falls back to the response slot when no error slot
\* is declared.
onRejectedFallback(args, meta, e) ==
  IF hasValidParamIndex(meta.errorIndex)
    THEN ArraySet(args, meta.errorIndex.n, e)
    ELSE IF hasValidParamIndex(meta.responseIndex)
      THEN ArraySet(args, meta.responseIndex.n, e)
      ELSE args

\* A catch block that also resets a declared response slot.
onRejectedClearsResponse(args, meta, e) ==
  LET a == IF hasValidParamIndex(meta.errorIndex)
             THEN ArraySet(args, meta.errorIndex.n, e)
             ELSE args
  IN  IF hasValidParamIndex(meta.responseIndex)
        THEN ArraySet(a, meta.responseIndex.n, Undefined)
        ELSE a

\* catch block: lines 79-81
onRejected(args, meta, e) ==
  IF hasValidParamIndex(meta.errorIndex)
    THEN ArraySet(args, meta.errorIndex.n, e)
    ELSE args

\* The wrapper's promise after the original method ran.
settled(i, body) ==
  IF body = "return"
    THEN [status |-> "resolved", value |-> Returned(i)]
    ELSE [status |-> "rejected", value |-> BodyError(i)]

\* The await of axios(requestConfig) has settled: the try block goes on or
\* the catch block is entered, and the slot of the outcome is written.
awaited(r, ok) ==
  [r EXCEPT !.outcome = IF ok THEN "fulfilled" ELSE "rejected",
            !.trace = Append(@, "ResultInjected")]

\* rawMethod.apply(target, args): the receiver is the prototype.
applyToTarget(r, i, this, args, body) ==
  [r EXCEPT !.pc = "done", !.args = args, !.rawCalls = @ + 1,
            !.rawThis = Target, !.rawArgs = args, !.body = body,
            !.trace = Append(@, "Delegated"),
            !.result = settled(i, body)]

\* rawMethod.apply(this, args) without the return: the wrapper resolves to
\* undefined when the body returns.
applyDropsResult(r, i, this, args, body) ==
  [r EXCEPT !.pc = "done", !.args = args, !.rawCalls = @ + 1,
            !.rawThis = this, !.rawArgs = args, !.body = body,
            !.trace = Append(@, "Delegated"),
            !.result = IF body = "return"
                         THEN [status |-> "resolved", value |-> Undefined]
                         ELSE settled(i, body)]

\* rawMethod.apply(this, args) as the wrapper's return statement: the body
\* returns or throws, and the wrapper's promise settles with that.
apply(r, i, this, args, body) ==
  [r EXCEPT !.pc = "done",
            !.args = args,
            !.rawCalls = @ + 1,
            !.rawThis = this,
            !.rawArgs = args,
            !.body = body,
            !.trace = Append(@, "Delegated"),
            !.result = settled(i, body)]

\* The original method applied inside the try block: when it throws, the
\* catch block takes its error for a transport error and it is applied again.
settleDelegateInTry(r, i, meta, ok, body) ==
  LET s == awaited(r, ok)
      first == apply(s, i, r.this, onFulfilled(r.args, meta, Payload(i)), body)
  IN  IF ok
        THEN IF body = "return" THEN first
             ELSE apply(first, i, r.this, onRejected(first.args, meta, BodyError(i)), body)
        ELSE apply(s, i, r.this, onRejected(r.args, meta, TransportError(i)), body)

\* The request issued a second time when it fails.
settleRetry(r, i, meta, ok, body) ==
  LET s == [awaited(r, ok) EXCEPT !.requests = IF ok THEN @ ELSE @ + 1]
  IN  IF ok
        THEN apply(s, i, r.this, onFulfilled(r.args, meta, Payload(i)), body)
        ELSE apply(s, i, r.this, onRejected(r.args, meta, TransportError(i)), body)

\* The transport error thrown on when no error slot is declared.
settleRethrow(r, i, meta, ok, body) ==
  LET s == awaited(r, ok)
  IN  IF ok
        THEN apply(s, i, r.this, onFulfilled(r.args, meta, Payload(i)), body)
        ELSE IF hasValidParamIndex(meta.errorIndex)
          THEN apply(s, i, r.this, onRejected(r.args, meta, TransportError(i)), body)
          ELSE [s EXCEPT !.pc = "done",
                         !.result = [status |-> "rejected", value |-> TransportError(i)]]

\* The wrapper from the point the awaited request settles: lines 72-84.
settle(r, i, meta, ok, body) ==
  LET s == awaited(r, ok)
  IN  IF ok
        THEN apply(s, i, r.this, onFulfilled(r.args, meta, Payload(i)), body)
        ELSE apply(s, i, r.this, onRejected(r.args, meta, TransportError(i)), body)

----------------------------------------------------------------------------
\* Inputs

\* The instance the caller invokes the method on.
Receivers == {"service1"}

ArgValues == {Undefined, Num(42), Obj([a |-> 2])}

ArgLists == UNION {[1..n -> ArgValues] : n \in 0..MaxArgs}

IndexValues == {Undefined, Num(-1)} \cup {Num(n) : n \in 0..MaxArgs}

Bodies == {"return", "throw"}

MetaData(h, p, pi, ri, ei) ==
  [headers |-> h, params |-> p, paramsIndex |-> pi,
   responseIndex |-> ri, errorIndex |-> ei]

Decorated(method, url, meta) ==
  [closure |-> createMethodDecorator(method, url), target |-> Target, meta |-> meta]

\* Methods that differ in where the response and the error are injected.
InjectFamily ==
  {Decorated("GET", "/users", MetaData(Undefined, Undefined, Num(0), ri, ei)) :
     ri \in IndexValues, ei \in IndexValues}

\* Methods that differ in how the request is built.
BuildFamily ==
  {Decorated(d[1], "/users", MetaData(d[2], d[3], d[4], d[5][1], d[5][2])) :
     d \in {"GET", "DELETE", "POST", "PUT", "PATCH", "get", "post"}
           \X {Undefined, Obj([h |-> 1])}
           \X {Undefined, Obj([a |-> 1, b |-> 1])}
           \X IndexValues
           \X {<<Undefined, Undefined>>, <<Num(0), Num(1)>>}}

Decorations == InjectFamily \cup BuildFamily

\* What setRequestConfig is called with.
Partials ==
  {[headers |-> Obj([h |-> 2, g |-> 2])],
   [url |-> Str("/default"), method |-> Str("DELETE"), timeout |-> Num(5000)]}

----------------------------------------------------------------------------
\* State

VARIABLES
  decorated,      \* per decorated method: closure, target, metadata
  defaultConfig,  \* RequestConfig's process-wide default request config
  configured,     \* history: what the setRequestConfig calls have established
  inv             \* per caller, its invocation of a decorated method

vars == <<decorated, defaultConfig, configured, inv>>

Idle ==
  [pc |-> "idle", m |-> 0, this |-> "", callArgs |-> <<>>, args |-> <<>>,
   gen |-> EmptyMap, trace |-> <<>>, requests |-> 0, request |-> EmptyMap, outcome |-> "none",
   rawCalls |-> 0, rawThis |-> "", rawArgs |-> <<>>, body |-> "none",
   result |-> [status |-> "pending", value |-> Undefined]]

Callers == DOMAIN inv

\* A copy of the default request config.
getDefaultRequestConfig == defaultConfig

Methods == DOMAIN decorated

\* One decorated method and one caller that calls it again and again.
Init ==
  /\ decorated \in [{1} -> Decorations]
  /\ defaultConfig = EmptyMap
  /\ configured = EmptyMap
  /\ inv = [i \in {1} |-> Idle]

\* setRequestConfig(partial)
setRequestConfig(partial) ==
  /\ defaultConfig' = assignRequestConfig(defaultConfig, partial)
  /\ configured' = assignRequestConfig(configured, partial)
  /\ UNCHANGED <<decorated, inv>>

\* The wrapper up to its await: lines 39-73, the request is issued.
issue(r, m, this, args, config) ==
  [r EXCEPT !.pc = "inflight", !.m = m, !.this = this,
            !.callArgs = args, !.args = args, !.gen = configured,
            !.trace = <<"MetadataResolved", "DescriptorBuilt", "RequestInFlight">>,
            !.requests = @ + 1, !.request = config]

\* getDefaultRequestConfig() read once, when the method is decorated, and
\* not in the wrapper: every request starts from the config of that moment.
CallHoistedConfig(i, m, this, args) ==
  /\ inv[i].pc = "idle"
  /\ inv' = [inv EXCEPT ![i] =
       issue(@, m, this, args,
             requestConfig(decorated[m].closure, getMetaData(decorated[m]), args,
                           EmptyMap))]
  /\ UNCHANGED <<decorated, defaultConfig, configured>>

\* The wrapper working on the shared default request config itself: what it
\* assigns for the request stays in the default.
CallSharedConfig(i, m, this, args) ==
  /\ inv[i].pc = "idle"
  /\ inv' = [inv EXCEPT ![i] =
       issue(@, m, this, args,
             requestConfig(decorated[m].closure, getMetaData(decorated[m]), args,
                           defaultConfig))]
  /\ defaultConfig' =
       requestConfig(decorated[m].closure, getMetaData(decorated[m]), args,
                     defaultConfig)
  /\ UNCHANGED <<decorated, configured>>

Call(i, m, this, args) ==
  /\ inv[i].pc = "idle"
  /\ inv' = [inv EXCEPT ![i] =
       issue(@, m, this, args,
             requestConfig(decorated[m].closure, getMetaData(decorated[m]), args,
                           getDefaultRequestConfig))]
  /\ UNCHANGED <<decorated, defaultConfig, configured>>

\* axios resolves the request of caller i; the wrapper runs to its end.
Resolve(i, body) ==
  /\ inv[i].pc = "inflight"
  /\ inv' = [inv EXCEPT ![i] = settle(@, i, getMetaData(decorated[@.m]), TRUE, body)]
  /\ UNCHANGED <<decorated, defaultConfig, configured>>

\* axios rejects the request of caller i; the wrapper runs to its end.
Reject(i, body) ==
  /\ inv[i].pc = "inflight"
  /\ inv' = [inv EXCEPT ![i] = settle(@, i, getMetaData(decorated[@.m]), FALSE, body)]
  /\ UNCHANGED <<decorated, defaultConfig, configured>>

\* The caller has taken the wrapper's result and may call again.
Return(i) ==
  /\ inv[i].pc = "done"
  /\ inv' = [inv EXCEPT ![i] = Idle]
  /\ UNCHANGED <<decorated, defaultConfig, configured>>

Next ==
  \/ \E partial \in Partials : setRequestConfig(partial)
  \/ \E i \in Callers, m \in Methods, this \in Receivers, args \in ArgLists :
       Call(i, m, this, args)
  \/ \E i \in Callers, body \in Bodies : Resolve(i, body)
  \/ \E i \in Callers, body \in Bodies : Reject(i, body)
  \/ \E i \in Callers : Return(i)

Spec == Init /\ [][Next]_vars

\* A service with two decorated methods.
ServiceMethods ==
  <<Decorated("GET", "/users",
              MetaData(Obj([h |-> 1]), Obj([a |-> 1, b |-> 1]), Num(0), Num(1), Num(2))),
    Decorated("POST", "/orders",
              MetaData(Undefined, Undefined, Num(0), Num(0), Undefined))>>

\* What the concurrent callers pass.
ServiceArgLists == {<<Obj([a |-> 2])>>, <<Num(42), Undefined>>}

\* The methods of the service return.
ServiceBodies == {"return"}

\* MaxCallers callers invoke the methods of the service concurrently.
InitConc ==
  /\ decorated = ServiceMethods
  /\ defaultConfig = EmptyMap
  /\ configured = EmptyMap
  /\ inv = [i \in 1..MaxCallers |-> Idle]

NextConc ==
  \/ \E partial \in Partials : setRequestConfig(partial)
  \/ \E i \in Callers, m \in Methods, this \in Receivers, args \in ServiceArgLists :
       Call(i, m, this, args)
  \/ \E i \in Callers, body \in ServiceBodies : Resolve(i, body)
  \/ \E i \in Callers, body \in ServiceBodies : Reject(i, body)
  \/ \E i \in Callers : Return(i)

SpecConc == InitConc /\ [][NextConc]_vars

\* One caller of one method of InjectFamily.
InitLive ==
  /\ decorated \in [{1} -> InjectFamily]
  /\ defaultConfig = EmptyMap
  /\ configured = EmptyMap
  /\ inv = [i \in {1} |-> Idle]

\* The awaited request of caller i settles and the wrapper resumes.
Settle(i) == \E body \in Bodies : Resolve(i, body) \/ Reject(i, body)

\* axios settles every request it is handed, and the job queue then runs
\* the rest of the wrapper.
SpecLive == InitLive /\ [][Next]_vars /\ WF_vars(Settle(1))

----------------------------------------------------------------------------
\* Properties

\* The metadata of the method invocation i is of.
metaOf(i) == getMetaData(decorated[inv[i].m])

closureOf(i) == decorated[inv[i].m].closure

\* What the setRequestConfig calls had established when invocation i began.
configuredAt(i) == inv[i].gen

\* An index a parameter decorator has set: a number, 0 included.
Declared(index) == index.kind = "number" /\ index.n >= 0

Fulfilled(i) == inv[i].pc = "done" /\ inv[i].outcome = "fulfilled"

Rejected(i) == inv[i].pc = "done" /\ inv[i].outcome = "rejected"

\* The slot the outcome of invocation i selects, -1 when it selects none.
Slot(i) ==
  IF inv[i].outcome = "fulfilled" /\ Declared(metaOf(i).responseIndex)
    THEN metaOf(i).responseIndex.n
  ELSE IF inv[i].outcome = "rejected" /\ Declared(metaOf(i).errorIndex)
    THEN metaOf(i).errorIndex.n
  ELSE -1

Positions == 0..(MaxArgs + 1)

\* C1: the original method is invoked exactly once per invocation, on
\* success and on failure of the request, and only once the request has
\* settled: never while it is in flight, never zero times or twice after.
C1_OriginalOnceAfterSettle ==
  \A i \in Callers :
    /\ inv[i].pc \in {"idle", "inflight"} =>
         inv[i].rawCalls = 0 /\ inv[i].outcome = "none"
    /\ inv[i].pc = "done" =>
         inv[i].rawCalls = 1 /\ inv[i].outcome \in {"fulfilled", "rejected"}

C1_Witness ==
  \E i \in Callers : Fulfilled(i) /\ inv[i].body = "throw" /\ inv[i].rawCalls = 1

\* C2: an invocation issues exactly one request: a failed request is not
\* issued again, and the original method never runs without the request.
C2_OneRequest ==
  \A i \in Callers :
    /\ inv[i].pc = "idle" => inv[i].requests = 0
    /\ inv[i].pc \in {"inflight", "done"} => inv[i].requests = 1
    /\ inv[i].rawCalls > 0 => inv[i].requests = 1

C2_Witness ==
  \E i \in Callers : Rejected(i) /\ inv[i].requests = 1 /\ inv[i].rawCalls = 1

\* C3: after a successful request with responseIndex r declared, r = 0
\* included, the original method holds response.data at position r.
C3_ResponseInjected ==
  \A i \in Callers :
    Fulfilled(i) /\ Declared(metaOf(i).responseIndex) =>
      /\ Len(inv[i].rawArgs) > metaOf(i).responseIndex.n
      /\ inv[i].rawArgs[metaOf(i).responseIndex.n + 1] = Payload(i)

C3_Witness ==
  \E i \in Callers :
    /\ Fulfilled(i)
    /\ metaOf(i).responseIndex = Num(0)
    /\ Len(inv[i].callArgs) > 0
    /\ inv[i].callArgs[1] # Payload(i)
    /\ inv[i].rawArgs[1] = Payload(i)

\* C4: after a failed request with errorIndex e declared and no
\* responseIndex, the original method is invoked and holds the transport's
\* error at position e.
C4_ErrorInjected ==
  \A i \in Callers :
    Rejected(i) /\ Declared(metaOf(i).errorIndex) /\ metaOf(i).responseIndex = Undefined =>
      /\ inv[i].rawCalls = 1
      /\ Len(inv[i].rawArgs) > metaOf(i).errorIndex.n
      /\ inv[i].rawArgs[metaOf(i).errorIndex.n + 1] = TransportError(i)

C4_Witness ==
  \E i \in Callers :
    /\ Rejected(i)
    /\ metaOf(i).errorIndex = Num(1)
    /\ metaOf(i).responseIndex = Undefined
    /\ Len(inv[i].callArgs) = 2
    /\ inv[i].rawArgs[2] = TransportError(i)

\* C5: a failed request never fails the wrapper with the transport error,
\* with or without an error slot: the original method runs and the wrapper
\* settles with what the original method returned or threw.
C5_FailureSwallowed ==
  \A i \in Callers :
    Rejected(i) =>
      /\ inv[i].rawCalls = 1
      /\ inv[i].result = settled(i, inv[i].body)
      /\ inv[i].result.value # TransportError(i)

C5_Witness ==
  \E i \in Callers :
    /\ Rejected(i)
    /\ ~Declared(metaOf(i).errorIndex)
    /\ inv[i].result = [status |-> "resolved", value |-> Returned(i)]

\* C6: after a failed request with no valid errorIndex the original method
\* holds the caller's argument list, also when a responseIndex is declared.
C6_FailureLeavesArgs ==
  \A i \in Callers :
    Rejected(i) /\ ~Declared(metaOf(i).errorIndex) =>
      inv[i].rawCalls = 1 /\ inv[i].rawArgs = inv[i].callArgs

C6_Witness ==
  \E i \in Callers :
    /\ Rejected(i)
    /\ ~Declared(metaOf(i).errorIndex)
    /\ metaOf(i).responseIndex = Num(0)
    /\ Len(inv[i].callArgs) = 2
    /\ inv[i].rawArgs = inv[i].callArgs

\* C7: after a successful request with no valid responseIndex the original
\* method holds the caller's argument list, also when an errorIndex is
\* declared.
C7_SuccessLeavesArgs ==
  \A i \in Callers :
    Fulfilled(i) /\ ~Declared(metaOf(i).responseIndex) =>
      inv[i].rawCalls = 1 /\ inv[i].rawArgs = inv[i].callArgs

C7_Witness ==
  \E i \in Callers :
    /\ Fulfilled(i)
    /\ ~Declared(metaOf(i).responseIndex)
    /\ metaOf(i).errorIndex = Num(0)
    /\ Len(inv[i].callArgs) = 2
    /\ inv[i].callArgs[1] # Undefined
    /\ inv[i].rawArgs = inv[i].callArgs

\* The index the outcome selects lies past the caller's argument list.
OutOfRange(i) == Slot(i) >= Len(inv[i].callArgs)

\* C8, as claimed: a declared responseIndex or errorIndex at or past the
\* number of arguments passed injects nothing, the original method holds
\* the caller's argument list.
C8_OutOfRangeNotEngaged ==
  \A i \in Callers :
    inv[i].pc = "done" /\ OutOfRange(i) => inv[i].rawArgs = inv[i].callArgs

\* C8, amended: a declared index past the caller's argument list is
\* engaged all the same: the list the original method holds is index + 1
\* long, holds the injected value at the index, the caller's values at the
\* caller's positions and undefined in between.
C8_OutOfRangeGrowsArgs ==
  \A i \in Callers :
    inv[i].pc = "done" /\ OutOfRange(i) =>
      /\ Len(inv[i].rawArgs) = Slot(i) + 1
      /\ inv[i].rawArgs[Slot(i) + 1] =
           (IF inv[i].outcome = "fulfilled" THEN Payload(i) ELSE TransportError(i))
      /\ \A k \in 1..Slot(i) :
           inv[i].rawArgs[k] =
             (IF k <= Len(inv[i].callArgs) THEN inv[i].callArgs[k] ELSE Undefined)

C8_Witness ==
  \E i \in Callers :
    /\ Rejected(i)
    /\ Len(inv[i].callArgs) = 1
    /\ Slot(i) = 2
    /\ inv[i].rawArgs = <<inv[i].callArgs[1], Undefined, TransportError(i)>>

\* C9: the original method is applied to the receiver of the wrapper call,
\* and every position but the slot the outcome selects reads what the
\* caller passed there.
C9_ReceiverAndOtherArgs ==
  \A i \in Callers :
    inv[i].pc = "done" =>
      /\ inv[i].rawThis = inv[i].this
      /\ \A p \in Positions :
           p # Slot(i) => ArgAt(inv[i].rawArgs, p) = ArgAt(inv[i].callArgs, p)

C9_Witness ==
  \E i \in Callers :
    /\ Fulfilled(i)
    /\ Slot(i) = 1
    /\ Len(inv[i].callArgs) = 2
    /\ inv[i].callArgs[1] = Obj([a |-> 2])
    /\ inv[i].rawArgs = <<Obj([a |-> 2]), Payload(i)>>
    /\ inv[i].rawThis = "service1"

\* The HTTP verb a method string names, whatever its case.
Verb(method) ==
  CASE method = "get" -> "GET"
    [] method = "post" -> "POST"
    [] OTHER -> method

\* C10: for the verbs POST, PUT and PATCH the merged parameters are in the
\* data field of the issued request and not in its params field; for every
\* other verb they are in the params field and not in the data field.
C10_ParamsPlacedByVerb ==
  \A i \in Callers :
    inv[i].pc \in {"inflight", "done"} =>
      LET rp == Obj(requestParams(metaOf(i).params, metaOf(i).paramsIndex, inv[i].callArgs))
          req == inv[i].request
      IN  IF Verb(closureOf(i).method) \in {"POST", "PUT", "PATCH"}
            THEN /\ "data" \in DOMAIN req /\ req["data"] = rp
                 /\ "params" \notin DOMAIN req
            ELSE /\ "params" \in DOMAIN req /\ req["params"] = rp
                 /\ "data" \notin DOMAIN req

Issued(i) == inv[i].pc \in {"inflight", "done"}

\* The field of the issued request that carries the request parameters.
ParamsField(i) ==
  IF "data" \in DOMAIN inv[i].request
    THEN inv[i].request["data"]
    ELSE inv[i].request["params"]

\* The runtime argument at paramsIndex contributes: the index is set, not
\* negative, inside the caller's argument list, and the argument there is a
\* plain object.
RuntimeParamsEngaged(i) ==
  /\ metaOf(i).paramsIndex.kind = "number"
  /\ metaOf(i).paramsIndex.n >= 0
  /\ metaOf(i).paramsIndex.n < Len(inv[i].callArgs)
  /\ inv[i].callArgs[metaOf(i).paramsIndex.n + 1].kind = "object"

\* The static params overlaid by the runtime argument.
Overlay(i) ==
  LET st == IF metaOf(i).params = Undefined THEN EmptyMap ELSE metaOf(i).params.map
      rt == IF RuntimeParamsEngaged(i)
              THEN inv[i].callArgs[metaOf(i).paramsIndex.n + 1].map
              ELSE EmptyMap
  IN  [k \in (DOMAIN st) \cup (DOMAIN rt) |-> IF k \in DOMAIN rt THEN rt[k] ELSE st[k]]

\* C11: the request parameters are the static params overlaid by the
\* plain-object argument at paramsIndex, whose keys win; with paramsIndex
\* unset, negative or past the end, or an argument that is no plain object,
\* they are the static params alone (none: empty), and the request is issued.
C11_ParamsOverlay ==
  \A i \in Callers :
    Issued(i) => inv[i].requests = 1 /\ ParamsField(i) = Obj(Overlay(i))

C11_Witness ==
  \E i \in Callers :
    /\ Issued(i)
    /\ metaOf(i).params = Obj([a |-> 1, b |-> 1])
    /\ metaOf(i).paramsIndex = Num(0)
    /\ Len(inv[i].callArgs) > 0
    /\ inv[i].callArgs[1] = Obj([a |-> 2])
    /\ ParamsField(i) = Obj([a |-> 2, b |-> 1])

\* C12: url and method of every issued request are the url and the verb
\* the decorator was created with, whatever the arguments, the params and
\* the url and method of the default request config.
C12_UrlAndMethodCaptured ==
  \A i \in Callers :
    Issued(i) =>
      /\ inv[i].request["url"] = Str(closureOf(i).url)
      /\ inv[i].request["method"] = Str(closureOf(i).method)

C12_Witness ==
  \E i \in Callers :
    /\ Issued(i)
    /\ "url" \in DOMAIN inv[i].gen
    /\ inv[i].gen["url"] = Str("/default")
    /\ inv[i].gen["method"] = Str("DELETE")
    /\ inv[i].request["url"] = Str("/users")
    /\ inv[i].request["method"] = Str("POST")

\* C13: invocations never change the default request config: it is always
\* what the setRequestConfig calls have established, with no params or data
\* of a request in it.
C13_DefaultConfigOnlySet ==
  /\ defaultConfig = configured
  /\ "params" \notin DOMAIN defaultConfig
  /\ "data" \notin DOMAIN defaultConfig

C13_Witness ==
  \E i \in Callers :
    /\ inv[i].pc = "done"
    /\ metaOf(i).headers = Obj([h |-> 1])
    /\ inv[i].request["headers"] = Obj([h |-> 1, g |-> 2])
    /\ defaultConfig =
         [headers |-> Obj([h |-> 2, g |-> 2]), url |-> Str("/default"),
          method |-> Str("DELETE"), timeout |-> Num(5000)]

\* C16: when the original method returns, the wrapper resolves to the value
\* it returned from the call with the injected argument list, after a
\* successful request and after a failed one.
C16_WrapperResolvesToResult ==
  \A i \in Callers :
    inv[i].pc = "done" /\ inv[i].body = "return" =>
      /\ inv[i].result = [status |-> "resolved", value |-> Returned(i)]
      /\ inv[i].rawArgs = inv[i].args

C16_Witness ==
  \E i \in Callers :
    /\ Rejected(i)
    /\ inv[i].body = "return"
    /\ Slot(i) = 0
    /\ inv[i].rawArgs[1] = TransportError(i)
    /\ inv[i].result.value = Returned(i)

\* Both slots are declared, at different positions.
BothDeclared(i) ==
  /\ Declared(metaOf(i).responseIndex)
  /\ Declared(metaOf(i).errorIndex)
  /\ metaOf(i).responseIndex # metaOf(i).errorIndex

\* The length of the argument list after a write at position slot.
LenAfter(args, slot) == IF slot + 1 > Len(args) THEN slot + 1 ELSE Len(args)

\* C19: one slot at most is written per invocation: with both indices
\* declared, a success leaves the error slot and a failure leaves the
\* response slot as the caller passed it, and the list grows for the
\* written slot alone.
C19_OneSlotInjected ==
  \A i \in Callers :
    inv[i].pc = "done" /\ BothDeclared(i) =>
      LET other == IF inv[i].outcome = "fulfilled"
                     THEN metaOf(i).errorIndex.n
                     ELSE metaOf(i).responseIndex.n
      IN  /\ ArgAt(inv[i].rawArgs, other) = ArgAt(inv[i].callArgs, other)
          /\ Len(inv[i].rawArgs) = LenAfter(inv[i].callArgs, Slot(i))
          /\ Cardinality({p \in Positions :
                 ArgAt(inv[i].rawArgs, p) # ArgAt(inv[i].callArgs, p)}) <= 1

C19_Witness ==
  \E i \in Callers :
    /\ Rejected(i)
    /\ metaOf(i).responseIndex = Num(0)
    /\ metaOf(i).errorIndex = Num(1)
    /\ inv[i].callArgs = <<Num(42), Num(42)>>
    /\ inv[i].rawArgs = <<Num(42), TransportError(i)>>

\* C20: a failure of the original method body is not caught: the wrapper
\* fails with it, the body is not run again and its error is written into
\* no argument slot.
C20_BodyFailurePropagates ==
  \A i \in Callers :
    inv[i].pc = "done" /\ inv[i].body = "throw" =>
      /\ inv[i].result = [status |-> "rejected", value |-> BodyError(i)]
      /\ inv[i].rawCalls = 1
      /\ \A p \in Positions : ArgAt(inv[i].rawArgs, p) # BodyError(i)

C20_Witness ==
  \E i \in Callers :
    /\ Fulfilled(i)
    /\ inv[i].body = "throw"
    /\ Declared(metaOf(i).errorIndex)
    /\ inv[i].result.value = BodyError(i)

\* The keys of a request config the wrapper writes itself.
OwnKeys == {"url", "method", "headers", "params", "data"}

HeadersOf(config) ==
  IF "headers" \in DOMAIN config THEN config["headers"].map ELSE EmptyMap

\* The headers of the request of invocation i: those of the generation gen
\* of the default config, overridden by the headers of the metadata.
HeadersFrom(i, gen) ==
  LET own == IF metaOf(i).headers = Undefined THEN EmptyMap ELSE metaOf(i).headers.map
  IN  [k \in (DOMAIN HeadersOf(gen)) \cup (DOMAIN own) |->
         IF k \in DOMAIN own THEN own[k] ELSE HeadersOf(gen)[k]]

\* The request of invocation i holds, besides what the wrapper writes, the
\* fields of the generation gen of the default config and no other.
FromGeneration(i, gen) ==
  /\ (DOMAIN inv[i].request) \ OwnKeys = (DOMAIN gen) \ OwnKeys
  /\ \A k \in (DOMAIN gen) \ OwnKeys : inv[i].request[k] = gen[k]
  /\ HeadersOf(inv[i].request) = HeadersFrom(i, gen)
  /\ "headers" \in DOMAIN inv[i].request <=>
       ("headers" \in DOMAIN gen \/ metaOf(i).headers # Undefined)

\* The request of invocation i carries its own url, method and params.
OwnRequest(i) ==
  /\ inv[i].request["url"] = Str(closureOf(i).url)
  /\ inv[i].request["method"] = Str(closureOf(i).method)
  /\ ParamsField(i) = Obj(Overlay(i))
  /\ ~("data" \in DOMAIN inv[i].request /\ "params" \in DOMAIN inv[i].request)

\* The original method of invocation i holds the response or the error of
\* the request of invocation i in the caller's argument list.
OwnResult(i) ==
  \A p \in Positions :
    ArgAt(inv[i].rawArgs, p) =
      (IF p # Slot(i) THEN ArgAt(inv[i].callArgs, p)
       ELSE IF inv[i].outcome = "fulfilled" THEN Payload(i) ELSE TransportError(i))

\* C14: concurrent invocations are independent under every interleaving:
\* the request of each carries its own url, method, params and headers over
\* the default config, and the original method of each holds the response
\* or error of its own request in its own argument list.
C14_InvocationsIndependent ==
  \A i \in Callers :
    /\ Issued(i) => OwnRequest(i) /\ FromGeneration(i, configuredAt(i))
    /\ inv[i].pc = "done" => OwnResult(i)

C14_Witness ==
  \E i, j \in Callers :
    /\ Rejected(i) /\ inv[i].m = 1
    /\ inv[i].rawArgs = <<Obj([a |-> 2]), Undefined, TransportError(i)>>
    /\ inv[j].pc = "inflight" /\ inv[j].m = 2
    /\ inv[j].callArgs = <<Num(42), Undefined>>
    /\ inv[j].request["data"] = Obj(EmptyMap)

\* C15: two invocations of the same method with the same arguments under
\* the same default config issue the same request, whatever ran in between.
C15_SameInputsSameRequest ==
  \A i, j \in Callers :
    /\ Issued(i) /\ Issued(j)
    /\ inv[i].m = inv[j].m
    /\ inv[i].callArgs = inv[j].callArgs
    /\ configuredAt(i) = configuredAt(j)
    => inv[i].request = inv[j].request

C15_Witness ==
  \E i, j \in Callers :
    /\ i # j
    /\ inv[i].pc = "done" /\ inv[j].pc = "inflight"
    /\ inv[i].m = 1 /\ inv[j].m = 1
    /\ inv[i].callArgs = <<Obj([a |-> 2])>> /\ inv[j].callArgs = <<Obj([a |-> 2])>>
    /\ configuredAt(i) = configuredAt(j)
    /\ "timeout" \in DOMAIN configuredAt(i)
    /\ inv[i].request = inv[j].request

\* C18: a request is built from the one generation of the default config
\* that is current when the method is invoked, and a setRequestConfig call
\* while the request is in flight leaves the request as it was issued.
C18_OneGeneration ==
  \A i \in Callers : Issued(i) => FromGeneration(i, configuredAt(i))

C18_Witness ==
  \E i \in Callers :
    /\ inv[i].pc = "inflight"
    /\ configuredAt(i) = [headers |-> Obj([h |-> 2, g |-> 2])]
    /\ "timeout" \in DOMAIN configured
    /\ "timeout" \notin DOMAIN inv[i].request
    /\ FromGeneration(i, configuredAt(i))

Phases ==
  <<"MetadataResolved", "DescriptorBuilt", "RequestInFlight", "ResultInjected",
    "Delegated">>

\* The phases invocation i has passed are the phases up to its position,
\* in order.
PhasesInOrder(i) ==
  inv[i].trace =
    SubSeq(Phases, 1, CASE inv[i].pc = "idle" -> 0
                        [] inv[i].pc = "inflight" -> 3
                        [] OTHER -> 5)

\* C17: every started invocation reaches Delegated, the original method
\* invoked, through the phases metadata resolved, descriptor built, request
\* in flight, result injected, delegated, none skipped or out of order.
C17_ReachesDelegated ==
  /\ [](\A i \in Callers : PhasesInOrder(i))
  /\ \A i \in {1} :
       (inv[i].pc = "inflight") ~> (inv[i].pc = "done" /\ inv[i].rawCalls = 1)

C17_Witness ==
  \E i \in Callers :
    /\ Rejected(i)
    /\ ~Declared(metaOf(i).errorIndex)
    /\ inv[i].trace = Phases
    /\ inv[i].rawCalls = 1

====
